---------------------------- MODULE Spec2Model ----------------------------
(***************************************************************************)
(* aPARAtus (Obsidian PARA manager): the path engine of src/src/utils.ts,  *)
(* the vault helpers of src/src/folder-ops.ts and the archive workflow of  *)
(* src/src/main.ts (ParaManagerPlugin.archiveItem / performArchive).       *)
(*                                                                         *)
(* A path is a sequence of one-character strings.  Two kinds of element    *)
(* stand for a literal run of characters that contains no separator: the   *)
(* archive date suffix " (Archived <date>)" and the counter suffix         *)
(* " (<n>)"; both are built by string concatenation as the source does.    *)
(***************************************************************************)
EXTENDS Integers, Sequences, FiniteSets, TLC

VARIABLES
  settings,        \* ParaManagerPlugin.settings (the fields archiving reads)
  folders,         \* vault: the paths that exist as folders
  files,           \* vault: the paths that exist as files
  itemPath,        \* TAbstractFile.path of every item object handed to archiveItem
  archivingItems,  \* ParaManagerPlugin.archivingItems
  call,            \* the local state of every archiveItem invocation
  failures,        \* rejections so far of moves the vault was able to perform
  dir,             \* generateArchiveDestination: argument archivePath
  base,            \* generateArchiveDestination: argument folderName
  existing,        \* generateArchiveDestination: argument existingPaths
  prevExisting,    \* existingPaths as passed to the latest call
  last,            \* result of the latest generateArchiveDestination call
  results,         \* destinations returned so far, in call order
  phase,           \* the configuration's life: "persisted" (data.json), then "loaded"
  probe,           \* the arguments of the latest settings edit or function call
  answer           \* what that edit's validation or that call returned

vars == <<settings, folders, files, itemPath, archivingItems, call, failures,
          dir, base, existing, prevExisting, last, results, phase, probe, answer>>

archiveVars == <<settings, folders, files, itemPath, archivingItems, call, failures>>
destVars == <<dir, base, existing, prevExisting, last, results>>
vaultVars == <<folders, files, itemPath, archivingItems, call, failures>>
cfgVars == <<phase, probe, answer>>

-----------------------------------------------------------------------------
(* Strings *)

\* `null`, for a message-valued result (a message is a non-empty sequence
\* of pieces of text)
NULL == <<>>

SLASH == "/"
BACKSLASH == "\\"

\* String.prototype.lastIndexOf("/"), 1-based; 0 stands for -1
LastSlash(s) ==
  LET idx == {i \in 1..Len(s) : s[i] = SLASH}
  IN IF idx = {} THEN 0 ELSE CHOOSE i \in idx : \A j \in idx : j <= i

\* String.prototype.startsWith
StartsWith(s, p) == Len(p) <= Len(s) /\ SubSeq(s, 1, Len(p)) = p

\* .replace(/\\/g, "/")
ReplaceBackslashes(s) == [i \in 1..Len(s) |-> IF s[i] = BACKSLASH THEN SLASH ELSE s[i]]

\* .replace(/\/+/g, "/")
RECURSIVE CollapseSlashes(_)
CollapseSlashes(s) ==
  IF Len(s) <= 1 THEN s
  ELSE IF s[1] = SLASH /\ s[2] = SLASH THEN CollapseSlashes(Tail(s))
  ELSE <<s[1]>> \o CollapseSlashes(Tail(s))

\* .replace(/^\/+/, "")
RECURSIVE TrimLeadingSlashes(_)
TrimLeadingSlashes(s) ==
  IF s # <<>> /\ s[1] = SLASH THEN TrimLeadingSlashes(Tail(s)) ELSE s

\* .replace(/\/+$/, "")
RECURSIVE TrimTrailingSlashes(_)
TrimTrailingSlashes(s) ==
  IF s # <<>> /\ s[Len(s)] = SLASH
  THEN TrimTrailingSlashes(SubSeq(s, 1, Len(s) - 1)) ELSE s

\* normalizePathPure trimming the slashes before it converts the backslashes
normalizePathPureTrimFirst(path) ==
  CollapseSlashes(ReplaceBackslashes(TrimTrailingSlashes(TrimLeadingSlashes(path))))

\* normalizePathPure without `.replace(/\/+/g, "/")`
normalizePathPureNoCollapse(path) ==
  TrimTrailingSlashes(TrimLeadingSlashes(ReplaceBackslashes(path)))

normalizePathPure(path) ==
  TrimTrailingSlashes(TrimLeadingSlashes(CollapseSlashes(ReplaceBackslashes(path))))

\* obsidian's normalizePath: as normalizePathPure, except that the empty
\* result is the vault root "/"
normalizePath(path) ==
  LET n == normalizePathPure(path) IN IF n = <<>> THEN <<SLASH>> ELSE n

getParentPath(folderPath) ==
  LET normalized == normalizePathPure(folderPath)
      lastSlash == LastSlash(normalized)
  IN IF lastSlash = 0 THEN <<>> ELSE SubSeq(normalized, 1, lastSlash - 1)

\* isTopLevelProjectFolder accepting every path below the root, at any depth
isTopLevelProjectFolderAnyDepth(folderPath, projectsPath) ==
  LET normalizedFolder == normalizePathPure(folderPath)
      normalizedProjects == normalizePathPure(projectsPath)
  IN StartsWith(normalizedFolder, normalizedProjects \o <<SLASH>>)

isTopLevelProjectFolder(folderPath, projectsPath) ==
  LET normalizedFolder == normalizePathPure(folderPath)
      normalizedProjects == normalizePathPure(projectsPath)
      parent == getParentPath(normalizedFolder)
  IN parent = normalizedProjects

\* getItemName cutting at the first slash, not the last
getItemNameAfterFirstSlash(folderPath) ==
  LET normalized == normalizePathPure(folderPath)
      slashes == {i \in 1..Len(normalized) : normalized[i] = SLASH}
      firstSlash == IF slashes = {} THEN 0
                    ELSE CHOOSE i \in slashes : \A j \in slashes : i <= j
  IN IF firstSlash = 0 THEN normalized
     ELSE SubSeq(normalized, firstSlash + 1, Len(normalized))

getItemName(folderPath) ==
  LET normalized == normalizePathPure(folderPath)
      lastSlash == LastSlash(normalized)
  IN IF lastSlash = 0 THEN normalized
     ELSE SubSeq(normalized, lastSlash + 1, Len(normalized))

\* isNestedPath with its prefix tests made without the separator
isNestedPathRawPrefix(path1, path2) ==
  LET normalized1 == normalizePathPure(path1)
      normalized2 == normalizePathPure(path2)
  IN \/ normalized1 = normalized2
     \/ StartsWith(normalized2, normalized1)
     \/ StartsWith(normalized1, normalized2)

isNestedPath(path1, path2) ==
  LET normalized1 == normalizePathPure(path1)
      normalized2 == normalizePathPure(path2)
  IN \/ normalized1 = normalized2
     \/ StartsWith(normalized2, normalized1 \o <<SLASH>>)
     \/ StartsWith(normalized1, normalized2 \o <<SLASH>>)

\* `PARA folders cannot be nested: "${path1}" and "${path2}"`
NestedMessage(path1, path2) ==
  <<"PARA folders cannot be nested: ", "\"">> \o path1 \o <<"\"", " and ", "\"">>
    \o path2 \o <<"\"">>

\* arePathsNested reporting the last nested pair of the scan, not the first
arePathsNestedLastPair(paths) ==
  LET hits == {h \in (1..Len(paths)) \X (1..Len(paths)) :
                 h[1] < h[2] /\ isNestedPath(paths[h[1]], paths[h[2]])}
      last_ == CHOOSE h \in hits :
                 \A g \in hits : g[1] < h[1] \/ (g[1] = h[1] /\ g[2] <= h[2])
  IN IF hits = {} THEN NULL
     ELSE NestedMessage(normalizePathPure(paths[last_[1]]),
                        normalizePathPure(paths[last_[2]]))

\* arePathsNested reporting the paths as they were passed, not normalized
arePathsNestedRawPaths(paths) ==
  LET hits == {h \in (1..Len(paths)) \X (1..Len(paths)) :
                 h[1] < h[2] /\ isNestedPath(paths[h[1]], paths[h[2]])}
      first == CHOOSE h \in hits :
                 \A g \in hits : h[1] < g[1] \/ (h[1] = g[1] /\ h[2] <= g[2])
  IN IF hits = {} THEN NULL
     ELSE NestedMessage(paths[first[1]], paths[first[2]])

\* the nested loops return at the first pair (i, j), i < j, in scan order
\* (i ascending, then j ascending) that isNestedPath accepts
arePathsNested(paths) ==
  LET hits == {h \in (1..Len(paths)) \X (1..Len(paths)) :
                 h[1] < h[2] /\ isNestedPath(paths[h[1]], paths[h[2]])}
      first == CHOOSE h \in hits :
                 \A g \in hits : h[1] < g[1] \/ (h[1] = g[1] /\ h[2] <= g[2])
  IN IF hits = {} THEN NULL
     ELSE NestedMessage(normalizePathPure(paths[first[1]]),
                        normalizePathPure(paths[first[2]]))

\* ParaFolderField, in the order of allFields
allFields == <<"projectsPath", "areasPath", "resourcesPath", "archivePath">>

FOLDER_DISPLAY_NAMES ==
  [projectsPath |-> "Projects", areasPath |-> "Areas", resourcesPath |-> "Resources",
   archivePath |-> "Archive"]

\* `${thisName} folder cannot be the same as ${otherName} folder`
SameMessage(thisName, otherName) ==
  <<thisName, " folder cannot be the same as ", otherName, " folder">>

\* `${thisName} folder cannot be nested with ${otherName} folder`
NestedWithMessage(thisName, otherName) ==
  <<thisName, " folder cannot be nested with ", otherName, " folder">>

\* the loop body with its equality check made on the normalized paths
ConflictWithNormalizedEqual(newPath, field, otherField, s) ==
  IF normalizePathPure(newPath) = normalizePathPure(s[otherField])
  THEN SameMessage(FOLDER_DISPLAY_NAMES[field], FOLDER_DISPLAY_NAMES[otherField])
  ELSE IF isNestedPath(newPath, s[otherField])
  THEN NestedWithMessage(FOLDER_DISPLAY_NAMES[field], FOLDER_DISPLAY_NAMES[otherField])
  ELSE NULL

\* the loop body without its nesting check
ConflictWithEqualOnly(newPath, field, otherField, s) ==
  IF newPath = s[otherField]
  THEN SameMessage(FOLDER_DISPLAY_NAMES[field], FOLDER_DISPLAY_NAMES[otherField])
  ELSE NULL

\* the body of the `for (const otherField of otherFields)` loop: the message
\* it returns, or NULL when it goes on to the next field
ConflictWith(newPath, field, otherField, s) ==
  IF newPath = s[otherField]
  THEN SameMessage(FOLDER_DISPLAY_NAMES[field], FOLDER_DISPLAY_NAMES[otherField])
  ELSE IF isNestedPath(newPath, s[otherField])
  THEN NestedWithMessage(FOLDER_DISPLAY_NAMES[field], FOLDER_DISPLAY_NAMES[otherField])
  ELSE NULL

\* validateParaFolderPath looping over allFields, the changed field included
validateParaFolderPathAllFields(newPath, field, s) ==
  LET hits == {k \in 1..Len(allFields) :
                 ConflictWith(newPath, field, allFields[k], s) # NULL}
      first == CHOOSE k \in hits : \A j \in hits : k <= j
  IN IF hits = {} THEN NULL
     ELSE ConflictWith(newPath, field, allFields[first], s)

validateParaFolderPath(newPath, field, s) ==
  LET otherFields == SelectSeq(allFields, LAMBDA f : f # field)
      hits == {k \in 1..Len(otherFields) :
                 ConflictWith(newPath, field, otherFields[k], s) # NULL}
      first == CHOOSE k \in hits : \A j \in hits : k <= j
  IN IF hits = {} THEN NULL
     ELSE ConflictWith(newPath, field, otherFields[first], s)

-----------------------------------------------------------------------------
(* generateArchiveDestination *)

MAX_COLLISION_ATTEMPTS == 1000

\* new Date().toISOString().split("T")[0]
dateStr == "2024-03-15"

\* ` (Archived ${dateStr})`
ArchivedSuffix == << " (Archived " \o dateStr \o ")" >>

\* ` (${counter})`
CounterSuffix(counter) == << " (" \o ToString(counter) \o ")" >>

\* the loop body with the membership test made on the name after the one
\* it returns
CollisionLoopBodyTestsNext(dateDest, existingPaths, s) ==
  IF s.done THEN s
  ELSE IF (dateDest \o CounterSuffix(s.counter + 1)) \notin existingPaths
       THEN [s EXCEPT !.done = TRUE]
       ELSE IF s.counter + 1 > MAX_COLLISION_ATTEMPTS
            THEN [s EXCEPT !.done = TRUE, !.threw = TRUE,
                           !.counter = @ + 1, !.increments = @ + 1]
            ELSE [s EXCEPT !.counter = @ + 1, !.increments = @ + 1]

\* one pass of the `while (true)` body, on the loop state s
CollisionLoopBody(dateDest, existingPaths, s) ==
  IF s.done THEN s
  ELSE IF (dateDest \o CounterSuffix(s.counter)) \notin existingPaths
       THEN [s EXCEPT !.done = TRUE]
       ELSE IF s.counter + 1 > MAX_COLLISION_ATTEMPTS
            THEN [s EXCEPT !.done = TRUE, !.threw = TRUE,
                           !.counter = @ + 1, !.increments = @ + 1]
            ELSE [s EXCEPT !.counter = @ + 1, !.increments = @ + 1]

\* n passes of the loop body, split in halves to keep the evaluation
\* shallow; r, the loop state after the first half, is bound as a value so
\* that it is computed once
RECURSIVE CollisionLoop(_, _, _, _)
CollisionLoop(dateDest, existingPaths, s, n) ==
  IF s.done \/ n = 0 THEN s
  ELSE IF n = 1 THEN CollisionLoopBody(dateDest, existingPaths, s)
  ELSE CHOOSE out \in
         { IF r.done THEN r
           ELSE CollisionLoop(dateDest, existingPaths, r, n - (n \div 2)) :
             r \in {CollisionLoop(dateDest, existingPaths, s, n \div 2)} } : TRUE

\* generateArchiveDestination without its second try (the date suffix alone)
generateArchiveDestinationNoDate(archivePath, folderName, existingPaths) ==
  LET normalizedArchive == normalizePathPure(archivePath)
      baseDest == normalizedArchive \o <<SLASH>> \o folderName
      dateDest == baseDest \o ArchivedSuffix
      loop == CollisionLoop(dateDest, existingPaths,
                [done |-> FALSE, threw |-> FALSE, counter |-> 2, increments |-> 0],
                MAX_COLLISION_ATTEMPTS + 1)
  IN IF baseDest \notin existingPaths
     THEN [threw |-> FALSE, dest |-> baseDest, counter |-> 0, increments |-> 0]
     ELSE IF loop.threw
     THEN [threw |-> TRUE, dest |-> <<>>, counter |-> loop.counter,
           increments |-> loop.increments]
     ELSE [threw |-> FALSE, dest |-> dateDest \o CounterSuffix(loop.counter),
           counter |-> loop.counter, increments |-> loop.increments]

\* the result: threw (the too-many-collisions error) or dest; counter is the
\* loop variable on exit (0: the loop was not entered), increments the
\* number of counter++ executed
generateArchiveDestination(archivePath, folderName, existingPaths) ==
  LET normalizedArchive == normalizePathPure(archivePath)
      baseDest == normalizedArchive \o <<SLASH>> \o folderName
      dateDest == baseDest \o ArchivedSuffix
      loop == CollisionLoop(dateDest, existingPaths,
                [done |-> FALSE, threw |-> FALSE, counter |-> 2, increments |-> 0],
                MAX_COLLISION_ATTEMPTS + 1)
  IN IF baseDest \notin existingPaths
     THEN [threw |-> FALSE, dest |-> baseDest, counter |-> 0, increments |-> 0]
     ELSE IF dateDest \notin existingPaths
     THEN [threw |-> FALSE, dest |-> dateDest, counter |-> 0, increments |-> 0]
     ELSE IF loop.threw
     THEN [threw |-> TRUE, dest |-> <<>>, counter |-> loop.counter,
           increments |-> loop.increments]
     ELSE [threw |-> FALSE, dest |-> dateDest \o CounterSuffix(loop.counter),
           counter |-> loop.counter, increments |-> loop.increments]

-----------------------------------------------------------------------------
(* The vault (obsidian's app.vault), as folder-ops.ts uses it *)

ROOT == <<SLASH>>

\* vault.getAbstractFileByPath(path) is not null
Exists(fo, fi, path) == path = ROOT \/ path \in fo \/ path \in fi

\* vault.getAbstractFileByPath(path) instanceof TFolder
IsFolder(fo, path) == path = ROOT \/ path \in fo

\* normalizedPath.split("/").filter(Boolean): the maximal runs without a
\* separator, in order
Segments(s) ==
  LET starts == {i \in 1..Len(s) : s[i] # SLASH /\ (i = 1 \/ s[i - 1] = SLASH)}
      start(k) == CHOOSE i \in starts : Cardinality({j \in starts : j <= i}) = k
      end(i) == CHOOSE e \in i..Len(s) :
                  /\ \A j \in i..e : s[j] # SLASH
                  /\ (e = Len(s) \/ s[e + 1] = SLASH)
  IN [k \in 1..Cardinality(starts) |-> SubSeq(s, start(k), end(start(k)))]

\* segments.slice(0, i).join("/")
RECURSIVE JoinFirst(_, _)
JoinFirst(segments, i) ==
  IF i = 0 THEN <<>>
  ELSE IF i = 1 THEN segments[1]
  ELSE JoinFirst(segments, i - 1) \o <<SLASH>> \o segments[i]

\* the `for (let i = 1; i <= segments.length; i++)` loop of ensureFolderExists,
\* from pass i on the folder set fo: creates a missing segment, throws on a
\* segment that exists and is no folder (parentPath and the folder set after
\* createFolder are bound as values, so that each is computed once);
\* created lists the createFolder calls in the order they were made
RECURSIVE EnsureSegments(_, _, _, _)
EnsureSegments(fo, fi, segments, i) ==
  IF i > Len(segments)
  THEN [threw |-> FALSE, folders |-> fo, message |-> "", created |-> <<>>]
  ELSE CHOOSE out \in
         { IF ~Exists(fo, fi, parentPath)
           THEN CHOOSE created \in
                  { [r EXCEPT !.created = <<parentPath>> \o @] :
                      r \in { EnsureSegments(after, fi, segments, next) :
                                after \in {fo \cup {parentPath}}, next \in {i + 1} } } : TRUE
           ELSE IF ~IsFolder(fo, parentPath)
           THEN [threw |-> TRUE, folders |-> fo,
                 message |-> "intermediate path is not a folder", created |-> <<>>]
           ELSE CHOOSE kept \in
                  { EnsureSegments(fo, fi, segments, next) : next \in {i + 1} } : TRUE :
             parentPath \in {JoinFirst(segments, i)} } : TRUE

\* ensureFolderExists taking whatever is at the path for a folder
ensureFolderExistsAnyKind(fo, fi, folderPath) ==
  LET normalizedPath == normalizePath(folderPath)
  IN IF Exists(fo, fi, normalizedPath)
     THEN [threw |-> FALSE, folders |-> fo, message |-> "", created |-> <<>>]
     ELSE CHOOSE out \in
            { EnsureSegments(fo, fi, segments, 1) :
                segments \in {Segments(normalizedPath)} } : TRUE

ensureFolderExists(fo, fi, folderPath) ==
  LET normalizedPath == normalizePath(folderPath)
  IN IF Exists(fo, fi, normalizedPath)
     THEN IF ~IsFolder(fo, normalizedPath)
          THEN [threw |-> TRUE, folders |-> fo, message |-> "exists but is not a folder",
                created |-> <<>>]
          ELSE [threw |-> FALSE, folders |-> fo, message |-> "", created |-> <<>>]
     ELSE CHOOSE out \in
            { EnsureSegments(fo, fi, segments, 1) :
                segments \in {Segments(normalizedPath)} } : TRUE

\* TFolder.children of the folder at folderPath, as paths
Children(fo, fi, folderPath) ==
  {p \in fo \cup fi :
     IF folderPath = ROOT THEN LastSlash(p) = 0
     ELSE LastSlash(p) # 0 /\ SubSeq(p, 1, LastSlash(p) - 1) = folderPath}

getExistingPaths(fo, fi, folderPath) ==
  IF IsFolder(fo, folderPath)
  THEN {normalizePath(child) : child \in Children(fo, fi, folderPath)}
  ELSE {}

-----------------------------------------------------------------------------
(* The archive workflow: ParaManagerPlugin.archiveItem and performArchive *)

MAX_RENAME_RETRIES == 3

\* number of archiveItem invocations in one run
MaxCalls == 2

\* number of times in one run that vault.rename rejects a move it was able
\* to perform (it always rejects one it is unable to perform)
MaxFailures == 3

Calls == 1..MaxCalls

\* messages of the errors vault.rename rejects with
RenameErrors == {"EACCES", "ENOSPC"}

TOO_MANY_COLLISIONS == "Too many archive collisions - please clean up your archive folder"

\* no edit or call made yet
NoProbe == [op |-> "none"]

\* `undefined`, for a path-valued variable (no path is the empty string here)
UNDEFINED == <<>>

Join(parent, name) == parent \o <<SLASH>> \o name

\* the default roots, the archive folder not created yet, one item outside
\* every managed root
DefaultVault(confirm) ==
  [projectsPath |-> <<"P">>, areasPath |-> <<"A">>, resourcesPath |-> <<"R">>,
   archivePath |-> <<"Z">>, confirmBeforeArchive |-> confirm,
   folders |-> {<<"P">>, <<"A">>, <<"R">>, <<"Q">>},
   files |-> {},
   items |-> {Join(<<"P">>, <<"i">>), Join(<<"Q">>, <<"i">>)}]

\* vault layouts and configurations an installation can be in: each passes
\* the checks of loadSettings; items are the files and folders archiveItem
\* can be handed
Scenarios ==
  { DefaultVault(FALSE), DefaultVault(TRUE),
    \* two source roots with the same last segment
    [projectsPath |-> Join(<<"W">>, <<"S">>), areasPath |-> Join(<<"L">>, <<"S">>),
     resourcesPath |-> <<"R">>, archivePath |-> <<"Z">>, confirmBeforeArchive |-> FALSE,
     folders |-> {<<"W">>, Join(<<"W">>, <<"S">>), <<"L">>, Join(<<"L">>, <<"S">>),
                  <<"R">>, <<"Z">>},
     files |-> {},
     items |-> {Join(Join(<<"W">>, <<"S">>), <<"i">>), Join(Join(<<"L">>, <<"S">>), <<"i">>)}],
    \* a file where the archive subfolder of the projects root belongs
    [projectsPath |-> <<"P">>, areasPath |-> <<"A">>, resourcesPath |-> <<"R">>,
     archivePath |-> <<"Z">>, confirmBeforeArchive |-> FALSE,
     folders |-> {<<"P">>, <<"A">>, <<"R">>, <<"Z">>},
     files |-> {Join(<<"Z">>, <<"P">>)},
     items |-> {Join(<<"P">>, <<"i">>)}] }

\* ParaManagerPlugin.getSourceFolders
getSourceFolders ==
  << normalizePath(settings.projectsPath),
     normalizePath(settings.areasPath),
     normalizePath(settings.resourcesPath) >>

\* sourceFolders.find(src => isTopLevelProjectFolder(path, src))
FindSourceFolder(path) ==
  LET src == getSourceFolders
      hit == {k \in 1..Len(src) : isTopLevelProjectFolder(path, src[k])}
  IN IF hit = {} THEN UNDEFINED
     ELSE src[CHOOSE k \in hit : \A j \in hit : k <= j]

\* sourceFolder ? getItemName(sourceFolder) : ""
SourceFolderName(sourceFolder) ==
  IF sourceFolder # UNDEFINED THEN getItemName(sourceFolder) ELSE <<>>

\* the archive subfolder taken beside the archive root, not inside it
ArchiveSubfolderOutsideArchive(archivePath, sourceFolderName) ==
  IF sourceFolderName # <<>>
  THEN normalizePath(sourceFolderName)
  ELSE archivePath

\* sourceFolderName ? normalizePath(`${archivePath}/${sourceFolderName}`) : archivePath
ArchiveSubfolder(archivePath, sourceFolderName) ==
  IF sourceFolderName # <<>>
  THEN normalizePath(archivePath \o <<SLASH>> \o sourceFolderName)
  ELSE archivePath

\* an invocation that has not started
IdleCall ==
  [pc |-> "idle", item |-> UNDEFINED, path |-> UNDEFINED, itemName |-> <<>>,
   archivePath |-> <<>>, sourceFolder |-> UNDEFINED, archiveSubfolder |-> <<>>,
   destPath |-> <<>>, snapshot |-> {}, attempt |-> 0, confirmed |-> FALSE,
   overlapped |-> FALSE, moves |-> <<>>, renameError |-> "", outcome |-> "none",
   notice |-> [kind |-> "none", itemName |-> <<>>, text |-> ""]]

\* the promise archiveItem returned is still pending
Unresolved(c) == call[c].pc \notin {"idle", "done"}

\* new Notice(`Failed to archive "${itemName}": ${message}`)
FailedNotice(itemName, message) ==
  [kind |-> "Failed to archive", itemName |-> itemName, text |-> message]

\* new Notice(`Archived "${itemName}" to ${destPath}`), with
\* " (path changed due to conflict)" when destPath is not the original one
ArchivedNotice(itemName, changed) ==
  [kind |-> "Archived", itemName |-> itemName,
   text |-> IF changed THEN "path changed due to conflict" ELSE ""]

\* the catch and finally blocks of archiveItem, for invocation c whose
\* local state is rec, with the vault's folders as fo
CatchAndFinally(c, rec, fo, message) ==
  /\ call' = [call EXCEPT ![c] = [rec EXCEPT !.pc = "done", !.outcome = "failed",
                          !.notice = FailedNotice(rec.itemName, message)]]
  /\ archivingItems' = archivingItems \ {itemPath[rec.item]}
  /\ folders' = fo
  /\ UNCHANGED <<settings, files, itemPath>>

\* archiveItem, to its first await: the guard, the owning root, the subfolder
archiveItem(c, item) ==
  /\ call[c].pc = "idle"
  /\ UNCHANGED <<destVars, cfgVars>>
  /\ \A d \in Calls : d < c => call[d].pc # "idle"
  /\ Exists(folders, files, itemPath[item])
  /\ LET path == itemPath[item]
         overlap == \E d \in Calls : Unresolved(d) /\ call[d].path = path
         archivePath == normalizePath(settings.archivePath)
         sourceFolder == FindSourceFolder(path)
     IN IF path \in archivingItems
        THEN /\ call' = [call EXCEPT ![c] = [IdleCall EXCEPT
                           !.pc = "done", !.item = item, !.path = path,
                           !.overlapped = overlap, !.outcome = "refused"]]
             /\ UNCHANGED archivingItems
        ELSE /\ archivingItems' = archivingItems \cup {path}
             /\ call' = [call EXCEPT ![c] = [IdleCall EXCEPT
                           !.pc = "ensureArchive", !.item = item, !.path = path,
                           !.overlapped = overlap,
                           !.itemName = getItemName(path),
                           !.archivePath = archivePath,
                           !.sourceFolder = sourceFolder,
                           !.archiveSubfolder =
                              ArchiveSubfolder(archivePath, SourceFolderName(sourceFolder))]]
  /\ UNCHANGED <<settings, folders, files, itemPath, failures>>

\* await ensureFolderExists(this.app, archivePath)
EnsureArchive(c) ==
  /\ call[c].pc = "ensureArchive"
  /\ UNCHANGED <<destVars, cfgVars>>
  /\ UNCHANGED failures
  /\ LET r == ensureFolderExists(folders, files, call[c].archivePath)
     IN IF r.threw
        THEN CatchAndFinally(c, call[c], r.folders, r.message)
        ELSE /\ folders' = r.folders
             /\ call' = [call EXCEPT ![c].pc = "ensureSubfolder"]
             /\ UNCHANGED <<settings, files, itemPath, archivingItems>>

\* await ensureFolderExists(this.app, archiveSubfolder) and what runs when it
\* resolves: getExistingPaths, generateArchiveDestination, then the
\* confirmation dialog (archiveItem returns the dialog's promise, so its
\* finally block runs now) or performArchive up to its vault.rename
EnsureSubfolder(c) ==
  /\ call[c].pc = "ensureSubfolder"
  /\ UNCHANGED <<destVars, cfgVars>>
  /\ UNCHANGED failures
  /\ \E r \in {ensureFolderExists(folders, files, call[c].archiveSubfolder)} :
     \E existingPaths \in {getExistingPaths(r.folders, files, call[c].archiveSubfolder)} :
     \E g \in {generateArchiveDestination(call[c].archiveSubfolder, call[c].itemName,
                                          existingPaths)} :
        IF r.threw
        THEN CatchAndFinally(c, call[c], r.folders, r.message)
        ELSE IF g.threw
        THEN CatchAndFinally(c, call[c], r.folders, TOO_MANY_COLLISIONS)
        ELSE IF settings.confirmBeforeArchive
        THEN /\ call' = [call EXCEPT ![c].pc = "modal", ![c].destPath = g.dest,
                                     ![c].snapshot = existingPaths]
             /\ archivingItems' = archivingItems \ {itemPath[call[c].item]}
             /\ folders' = r.folders
             /\ UNCHANGED <<settings, files, itemPath>>
        ELSE /\ call' = [call EXCEPT ![c].pc = "rename", ![c].destPath = g.dest,
                                     ![c].snapshot = existingPaths, ![c].attempt = 0]
             /\ folders' = r.folders
             /\ UNCHANGED <<settings, files, itemPath, archivingItems>>

\* ArchiveConfirmModal: the Archive button or Enter; onConfirm runs
\* performArchive up to its vault.rename
ConfirmModal(c) ==
  /\ call[c].pc = "modal"
  /\ UNCHANGED <<destVars, cfgVars>>
  /\ call' = [call EXCEPT ![c].pc = "rename", ![c].confirmed = TRUE, ![c].attempt = 0]
  /\ UNCHANGED <<settings, folders, files, itemPath, archivingItems, failures>>

\* ArchiveConfirmModal: Cancel, Escape or closing the dialog; onCancel resolves
CancelModal(c) ==
  /\ call[c].pc = "modal"
  /\ UNCHANGED <<destVars, cfgVars>>
  /\ call' = [call EXCEPT ![c].pc = "done", ![c].outcome = "cancelled"]
  /\ UNCHANGED <<settings, folders, files, itemPath, archivingItems, failures>>

\* refreshedPaths without the failed destination
RefreshedPathsNotAdded(existingPaths, destPath) == existingPaths

\* refreshedPaths after `refreshedPaths.add(destPath)`
RefreshedPaths(existingPaths, destPath) == existingPaths \cup {destPath}

\* the retry loop gives up one attempt sooner
IsFinalAttemptOneEarly(attempt) == attempt = MAX_RENAME_RETRIES - 2

\* the retry loop gives up after one attempt more
IsFinalAttemptOneLate(attempt) == attempt = MAX_RENAME_RETRIES

\* attempt === MAX_RENAME_RETRIES - 1
IsFinalAttempt(attempt) == attempt = MAX_RENAME_RETRIES - 1

\* an error thrown by performArchive: archiveItem awaits it and catches, the
\* dialog's onConfirm callback does not (the rejection is unhandled and the
\* promise archiveItem returned stays pending)
PerformArchiveThrows(c, rec, message) ==
  IF rec.confirmed
  THEN /\ call' = [call EXCEPT ![c] = [rec EXCEPT !.pc = "pending", !.outcome = "unhandled"]]
       /\ UNCHANGED <<settings, folders, files, itemPath, archivingItems>>
  ELSE CatchAndFinally(c, rec, folders, message)

\* the vault is able to perform the move invocation c has asked for: the item
\* is where its object says and nothing is at the destination
CanMove(c) ==
  /\ Exists(folders, files, itemPath[call[c].item])
  /\ ~Exists(folders, files, call[c].destPath)

\* vault.rename(item, destPath) resolves: the vault has moved the item (never
\* onto an existing path) and may have updated the path of the item object
\* it was handed; then the notice, focusFolder, and resolve() in the dialog's
\* callback or the return to archiveItem and its finally block
RenameResolves(c) ==
  /\ call[c].pc = "rename"
  /\ UNCHANGED <<destVars, cfgVars>>
  /\ LET item == call[c].item
         from == itemPath[item]
         destPath == call[c].destPath
     IN /\ CanMove(c)
        /\ folders' = IF from \in folders THEN (folders \ {from}) \cup {destPath}
                      ELSE folders
        /\ files' = IF from \in folders THEN files ELSE (files \ {from}) \cup {destPath}
        /\ \E newPath \in {from, destPath} :
             /\ itemPath' = [itemPath EXCEPT ![item] = newPath]
             /\ archivingItems' = IF call[c].confirmed THEN archivingItems
                                  ELSE archivingItems \ {newPath}
        /\ call' = [call EXCEPT ![c].pc = "done", ![c].outcome = "archived",
                      ![c].moves = Append(@, [dest |-> destPath,
                                              snapshot |-> call[c].snapshot, ok |-> TRUE]),
                      ![c].notice = ArchivedNotice(call[c].itemName,
                                      destPath # (call[c].moves \o <<[dest |-> destPath]>>)[1].dest)]
        /\ UNCHANGED <<settings, failures>>

\* vault.rename(item, destPath) rejects: the catch block of the retry loop
RenameRejects(c) ==
  /\ call[c].pc = "rename"
  /\ UNCHANGED <<destVars, cfgVars>>
  /\ CanMove(c) => failures < MaxFailures
  /\ failures' = IF CanMove(c) THEN failures + 1 ELSE failures
  /\ \E message \in RenameErrors :
       LET destPath == call[c].destPath
           rec == [call[c] EXCEPT
                     !.moves = Append(@, [dest |-> destPath, snapshot |-> call[c].snapshot,
                                          ok |-> FALSE]),
                     !.renameError = message]
           refreshedPaths ==
             RefreshedPaths(getExistingPaths(folders, files, rec.archiveSubfolder), destPath)
           g == generateArchiveDestination(rec.archiveSubfolder, rec.itemName, refreshedPaths)
       IN IF IsFinalAttempt(rec.attempt)
          THEN PerformArchiveThrows(c, rec, message)
          ELSE IF g.threw
          THEN PerformArchiveThrows(c, rec, TOO_MANY_COLLISIONS)
          ELSE /\ call' = [call EXCEPT ![c] = [rec EXCEPT
                             !.destPath = g.dest, !.snapshot = refreshedPaths,
                             !.attempt = @ + 1]]
               /\ UNCHANGED <<settings, folders, files, itemPath, archivingItems>>

\* loadSettings keeps the loaded configuration s (none of its three checks
\* resets it to the defaults)
LoadSettingsAccepts(s) ==
  LET sourceFolders == << normalizePath(s.projectsPath), normalizePath(s.areasPath),
                          normalizePath(s.resourcesPath) >>
      archivePath == normalizePath(s.archivePath)
  IN /\ \A k \in 1..3 : sourceFolders[k] # archivePath
     /\ Cardinality({sourceFolders[k] : k \in 1..3}) = 3
     /\ arePathsNested(<<s.projectsPath, s.areasPath, s.resourcesPath, s.archivePath>>) = NULL

NoResult == [threw |-> FALSE, dest |-> <<>>, counter |-> 0, increments |-> 0]

Init ==
  /\ \E sc \in Scenarios :
       /\ settings = [projectsPath |-> sc.projectsPath, areasPath |-> sc.areasPath,
                      resourcesPath |-> sc.resourcesPath, archivePath |-> sc.archivePath,
                      confirmBeforeArchive |-> sc.confirmBeforeArchive]
       /\ LoadSettingsAccepts(settings)
       /\ folders = sc.folders \cup sc.items
       /\ files = sc.files
       /\ itemPath = [i \in sc.items |-> i]
  /\ archivingItems = {}
  /\ call = [c \in Calls |-> IdleCall]
  /\ failures = 0
  /\ dir = <<>> /\ base = <<>> /\ existing = {} /\ prevExisting = {}
  /\ last = NoResult /\ results = <<>>
  /\ phase = "loaded" /\ probe = NoProbe /\ answer = NULL

Next ==
  \/ \E c \in Calls, item \in DOMAIN itemPath : archiveItem(c, item)
  \/ \E c \in Calls : EnsureArchive(c)
  \/ \E c \in Calls : EnsureSubfolder(c)
  \/ \E c \in Calls : ConfirmModal(c)
  \/ \E c \in Calls : CancelModal(c)
  \/ \E c \in Calls : RenameResolves(c)
  \/ \E c \in Calls : RenameRejects(c)

Spec == Init /\ [][Next]_vars

\* what invocation c is waiting for happens: a storage call returns
\* (vault.createFolder; vault.rename, either way) or the user ends the
\* confirmation dialog (either way)
Progress(c) ==
  \/ EnsureArchive(c)
  \/ EnsureSubfolder(c)
  \/ ConfirmModal(c)
  \/ CancelModal(c)
  \/ RenameResolves(c)
  \/ RenameRejects(c)

\* Spec with the scheduling that archiving relies on: no invocation waits
\* forever for a storage call to return or for the user to end the dialog
SpecLive == Spec /\ \A c \in Calls : WF_vars(Progress(c))

-----------------------------------------------------------------------------
(* generateArchiveDestination called again and again for one name, every   *)
(* result added to the set of existing paths before the next call          *)

\* calls made in sequence from one starting set
MaxRepeats == 4

\* archivePath arguments; the second is changed by normalizePathPure
Dirs == { <<"Z">>, <<"Z", SLASH, "P", SLASH>> }

\* folderName arguments
Names == { <<"i">>, <<"n">> }

\* the k-th name of the naming policy for baseName in targetDir: 0 is the
\* plain name, 1 the date-suffixed name, k >= 2 the date-suffixed name with
\* counter k
Candidate(targetDir, baseName, k) ==
  LET plain == normalizePathPure(targetDir) \o <<SLASH>> \o baseName
  IN IF k = 0 THEN plain
     ELSE IF k = 1 THEN plain \o ArchivedSuffix
     ELSE plain \o ArchivedSuffix \o CounterSuffix(k)

\* existingPaths arguments to start from: empty, with and without gaps in the
\* policy order, with an unrelated name, and filled up to the collision limit
StartSets(d, b) ==
  LET C(k) == Candidate(d, b, k)
  IN { {}, {C(1)}, {C(0), Candidate(d, <<"o">>, 0)}, {C(0), C(1)},
       {C(0), C(1), C(3)}, {C(0), C(1), C(2), C(4)},
       {C(k) : k \in 0..(MAX_COLLISION_ATTEMPTS - 2)},
       {C(k) : k \in 0..MAX_COLLISION_ATTEMPTS} }

InitDest ==
  /\ dir \in Dirs
  /\ base \in Names
  /\ existing \in StartSets(dir, base)
  /\ prevExisting = {}
  /\ last = NoResult
  /\ results = <<>>
  /\ settings = [projectsPath |-> <<"P">>, areasPath |-> <<"A">>, resourcesPath |-> <<"R">>,
                 archivePath |-> <<"Z">>, confirmBeforeArchive |-> FALSE]
  /\ folders = {} /\ files = {}
  /\ itemPath = [i \in {} |-> <<>>]
  /\ archivingItems = {}
  /\ call = [c \in Calls |-> IdleCall]
  /\ failures = 0
  /\ phase = "loaded" /\ probe = NoProbe /\ answer = NULL

\* destPath = generateArchiveDestination(dir, base, existing); existing.add(destPath)
GenerateAgain ==
  /\ ~last.threw
  /\ Len(results) < MaxRepeats
  /\ LET g == generateArchiveDestination(dir, base, existing)
     IN /\ last' = g
        /\ prevExisting' = existing
        /\ existing' = IF g.threw THEN existing ELSE existing \cup {g.dest}
        /\ results' = IF g.threw THEN results ELSE Append(results, g.dest)
  /\ UNCHANGED <<dir, base>>
  /\ UNCHANGED <<archiveVars, cfgVars>>

NextDest == GenerateAgain

SpecDest == InitDest /\ [][NextDest]_vars

-----------------------------------------------------------------------------
(* The root configuration: loadSettings and the settings tab's path fields *)

\* DEFAULT_SETTINGS, the fields archiving reads (P, A, R, Z stand for
\* Projects, Areas, Resources, Archive)
DEFAULT_SETTINGS ==
  [projectsPath |-> <<"P">>, areasPath |-> <<"A">>, resourcesPath |-> <<"R">>,
   archivePath |-> <<"Z">>, confirmBeforeArchive |-> FALSE]

FOLDER_DEFAULTS ==
  [projectsPath |-> <<"P">>, areasPath |-> <<"A">>, resourcesPath |-> <<"R">>,
   archivePath |-> <<"Z">>]

\* values a field of data.json can hold instead of its default
Overrides == { <<"X">>, <<"A">>, <<"P", SLASH, "X">> }

\* what the user can leave in a path field of the settings tab
EditValues ==
  { <<"A">>, <<"X">>, <<"P", SLASH, "X">>, <<BACKSLASH>>, <<" ", SLASH>>,
    <<SLASH, "X", SLASH>> }

\* the settings after loadSettings, for the settings s that Object.assign
\* built from DEFAULT_SETTINGS and data.json
loadSettings(s) ==
  LET sourceFolders == << normalizePath(s.projectsPath), normalizePath(s.areasPath),
                          normalizePath(s.resourcesPath) >>
      archivePath == normalizePath(s.archivePath)
      sourcesReset == [s EXCEPT !.projectsPath = DEFAULT_SETTINGS.projectsPath,
                                !.areasPath = DEFAULT_SETTINGS.areasPath,
                                !.resourcesPath = DEFAULT_SETTINGS.resourcesPath]
      allReset == [sourcesReset EXCEPT !.archivePath = DEFAULT_SETTINGS.archivePath]
  IN IF \E k \in 1..3 : sourceFolders[k] = archivePath THEN allReset
     ELSE IF Cardinality({sourceFolders[k] : k \in 1..3}) # 3 THEN sourcesReset
     ELSE IF arePathsNested(<<s.projectsPath, s.areasPath, s.resourcesPath,
                              s.archivePath>>) # NULL
     THEN allReset
     ELSE s

\* String.prototype.trim, the blank being the only white space here
RECURSIVE Trim(_)
Trim(s) ==
  IF s # <<>> /\ s[1] = " " THEN Trim(Tail(s))
  ELSE IF s # <<>> /\ s[Len(s)] = " " THEN Trim(SubSeq(s, 1, Len(s) - 1))
  ELSE s

\* value.trim().replace(/\/+$/, "") || FOLDER_DEFAULTS[field]
BlurNormalized(value, field) ==
  LET stripped == TrimTrailingSlashes(Trim(value))
  IN IF stripped = <<>> THEN FOLDER_DEFAULTS[field] ELSE stripped

InitConfig ==
  /\ phase = "persisted"
  /\ \E p \in {DEFAULT_SETTINGS.projectsPath} \cup Overrides,
        a \in {DEFAULT_SETTINGS.areasPath} \cup Overrides,
        r \in {DEFAULT_SETTINGS.resourcesPath} \cup Overrides,
        z \in {DEFAULT_SETTINGS.archivePath} \cup Overrides :
       settings = [DEFAULT_SETTINGS EXCEPT !.projectsPath = p, !.areasPath = a,
                                           !.resourcesPath = r, !.archivePath = z]
  /\ probe = NoProbe
  /\ answer = NULL
  /\ folders = {} /\ files = {}
  /\ itemPath = [i \in {} |-> <<>>]
  /\ archivingItems = {}
  /\ call = [c \in Calls |-> IdleCall]
  /\ failures = 0
  /\ dir = <<>> /\ base = <<>> /\ existing = {} /\ prevExisting = {}
  /\ last = NoResult /\ results = <<>>

\* onload: await this.loadSettings()
LoadSettings ==
  /\ phase = "persisted"
  /\ phase' = "loaded"
  /\ settings' = loadSettings(settings)
  /\ probe' = [op |-> "loadSettings", before |-> settings]
  /\ answer' = NULL
  /\ UNCHANGED <<vaultVars, destVars>>

\* the blur handler storing and saving the value whatever the validation says
BlurStoresRejected(field, value) ==
  /\ phase = "loaded"
  /\ LET normalized == BlurNormalized(value, field)
         error == validateParaFolderPath(normalized, field, settings)
     IN /\ probe' = [op |-> "edit", field |-> field, newPath |-> normalized,
                     before |-> settings, saved |-> TRUE]
        /\ answer' = error
        /\ settings' = [settings EXCEPT ![field] = normalized]
  /\ UNCHANGED phase
  /\ UNCHANGED <<vaultVars, destVars>>

\* the blur handler of the path field `field`, the user having left `value`
\* in it: the value is stored, and saveSettings called (saved), only when
\* validateParaFolderPath returns null
Blur(field, value) ==
  /\ phase = "loaded"
  /\ LET normalized == BlurNormalized(value, field)
         error == validateParaFolderPath(normalized, field, settings)
     IN /\ probe' = [op |-> "edit", field |-> field, newPath |-> normalized,
                     before |-> settings, saved |-> error = NULL]
        /\ answer' = error
        /\ settings' = IF error # NULL THEN settings
                       ELSE [settings EXCEPT ![field] = normalized]
  /\ UNCHANGED phase
  /\ UNCHANGED <<vaultVars, destVars>>

NextConfig ==
  \/ LoadSettings
  \/ \E k \in 1..Len(allFields), value \in EditValues : Blur(allFields[k], value)

SpecConfig == InitConfig /\ [][NextConfig]_vars

-----------------------------------------------------------------------------
(* validateParaFolderPath called on its own *)

\* path strings passed to the path functions: empty, plain, sharing a raw
\* prefix, nested, and written with extra slashes, a backslash or as the root
PathStrings ==
  { <<>>, <<"P">>, <<"P", "E">>, <<"A">>, <<"P", SLASH, "X">>, <<SLASH, "P", SLASH>>,
    <<"P", BACKSLASH, "X">>, <<SLASH>> }

\* values of a field of the settings argument
FieldValues(field) == {FOLDER_DEFAULTS[field], <<"P">>, <<"P", SLASH, "X">>}

InitValidate ==
  /\ phase = "called"
  /\ \E p \in FieldValues("projectsPath"), a \in FieldValues("areasPath"),
        r \in FieldValues("resourcesPath"), z \in FieldValues("archivePath") :
       settings = [DEFAULT_SETTINGS EXCEPT !.projectsPath = p, !.areasPath = a,
                                           !.resourcesPath = r, !.archivePath = z]
  /\ \E newPath \in PathStrings, k \in 1..Len(allFields) :
       probe = [op |-> "validate", newPath |-> newPath, field |-> allFields[k]]
  /\ answer = NULL
  /\ folders = {} /\ files = {}
  /\ itemPath = [i \in {} |-> <<>>]
  /\ archivingItems = {}
  /\ call = [c \in Calls |-> IdleCall]
  /\ failures = 0
  /\ dir = <<>> /\ base = <<>> /\ existing = {} /\ prevExisting = {}
  /\ last = NoResult /\ results = <<>>

\* validateParaFolderPath(newPath, field, settings)
Validate ==
  /\ phase = "called"
  /\ phase' = "returned"
  /\ answer' = validateParaFolderPath(probe.newPath, probe.field, settings)
  /\ UNCHANGED <<probe, archiveVars, destVars>>

NextValidate == Validate

SpecValidate == InitValidate /\ [][NextValidate]_vars

-----------------------------------------------------------------------------
(* isNestedPath and arePathsNested called on their own *)

\* longest list passed to arePathsNested
MaxListLen == 4

\* the lists of at most n path strings
RECURSIVE Lists(_)
Lists(n) ==
  IF n = 0 THEN {<<>>}
  ELSE Lists(n - 1) \cup {Append(l, p) : l \in {m \in Lists(n - 1) : Len(m) = n - 1},
                                         p \in PathStrings}

InitNested ==
  /\ phase = "called"
  /\ \/ \E paths \in Lists(MaxListLen) : probe = [op |-> "arePathsNested", paths |-> paths]
     \/ \E a \in PathStrings, b \in PathStrings :
          probe = [op |-> "isNestedPath", path1 |-> a, path2 |-> b]
  /\ answer = NULL
  /\ settings = DEFAULT_SETTINGS
  /\ folders = {} /\ files = {}
  /\ itemPath = [i \in {} |-> <<>>]
  /\ archivingItems = {}
  /\ call = [c \in Calls |-> IdleCall]
  /\ failures = 0
  /\ dir = <<>> /\ base = <<>> /\ existing = {} /\ prevExisting = {}
  /\ last = NoResult /\ results = <<>>

\* arePathsNested(paths)
CallArePathsNested ==
  /\ phase = "called"
  /\ probe.op = "arePathsNested"
  /\ phase' = "returned"
  /\ answer' = arePathsNested(probe.paths)
  /\ UNCHANGED <<probe, archiveVars, destVars>>

\* isNestedPath(path1, path2)
CallIsNestedPath ==
  /\ phase = "called"
  /\ probe.op = "isNestedPath"
  /\ phase' = "returned"
  /\ answer' = isNestedPath(probe.path1, probe.path2)
  /\ UNCHANGED <<probe, archiveVars, destVars>>

NextNested == CallArePathsNested \/ CallIsNestedPath

SpecNested == InitNested /\ [][NextNested]_vars

-----------------------------------------------------------------------------
(* The path functions of utils.ts called on their own *)

\* longest string passed as a path
MaxStrLen == 5

\* longest string passed as a root
MaxRootLen == 3

\* an alphabet of two ordinary characters and the two separators
PathChars == {"a", "b", SLASH, BACKSLASH}

\* the characters the roots are written with
RootChars == {"a", SLASH}

\* the strings of at most n characters of chars
RECURSIVE Strings(_, _)
Strings(chars, n) ==
  IF n = 0 THEN {<<>>}
  ELSE Strings(chars, n - 1)
         \cup {Append(t, ch) : t \in {u \in Strings(chars, n - 1) : Len(u) = n - 1},
                               ch \in chars}

\* the variables of the workflow and of generateArchiveDestination at rest
NothingRunning ==
  /\ settings = DEFAULT_SETTINGS
  /\ folders = {} /\ files = {}
  /\ itemPath = [i \in {} |-> <<>>]
  /\ archivingItems = {}
  /\ call = [c \in Calls |-> IdleCall]
  /\ failures = 0
  /\ dir = <<>> /\ base = <<>> /\ existing = {} /\ prevExisting = {}
  /\ last = NoResult /\ results = <<>>

InitPaths ==
  /\ phase = "called"
  /\ \/ \E path \in Strings(PathChars, MaxStrLen) :
          probe = [op |-> "normalizePathPure", path |-> path]
     \/ \E path \in Strings(PathChars, MaxStrLen) :
          probe = [op |-> "getItemName", path |-> path]
     \/ \E path \in Strings(PathChars, MaxStrLen), root \in Strings(RootChars, MaxRootLen) :
          probe = [op |-> "isTopLevelProjectFolder", folderPath |-> path,
                   projectsPath |-> root]
  /\ answer = NULL
  /\ NothingRunning

\* normalizePathPure(path)
CallNormalizePathPure ==
  /\ phase = "called"
  /\ probe.op = "normalizePathPure"
  /\ phase' = "returned"
  /\ answer' = normalizePathPure(probe.path)
  /\ UNCHANGED <<probe, archiveVars, destVars>>

\* getItemName(getParentPath(path) + "/" + getItemName(path))
CallGetItemName ==
  /\ phase = "called"
  /\ probe.op = "getItemName"
  /\ phase' = "returned"
  /\ answer' = getItemName(getParentPath(probe.path) \o <<SLASH>> \o getItemName(probe.path))
  /\ UNCHANGED <<probe, archiveVars, destVars>>

\* isTopLevelProjectFolder(folderPath, projectsPath)
CallIsTopLevelProjectFolder ==
  /\ phase = "called"
  /\ probe.op = "isTopLevelProjectFolder"
  /\ phase' = "returned"
  /\ answer' = isTopLevelProjectFolder(probe.folderPath, probe.projectsPath)
  /\ UNCHANGED <<probe, archiveVars, destVars>>

NextPaths == CallNormalizePathPure \/ CallGetItemName \/ CallIsTopLevelProjectFolder

SpecPaths == InitPaths /\ [][NextPaths]_vars

-----------------------------------------------------------------------------
(* The search for the source folder of an item, on its own *)

\* the paths of items: the path strings and an item "i" inside each
ItemStrings == PathStrings \cup {p \o <<SLASH, "i">> : p \in PathStrings}

InitOwner ==
  /\ phase = "called"
  /\ \E p \in PathStrings, a \in PathStrings, r \in PathStrings,
        z \in {DEFAULT_SETTINGS.archivePath, <<"P", SLASH, "X">>} :
       settings = [DEFAULT_SETTINGS EXCEPT !.projectsPath = p, !.areasPath = a,
                                           !.resourcesPath = r, !.archivePath = z]
  /\ \E path \in ItemStrings : probe = [op |-> "find", path |-> path]
  /\ answer = NULL
  /\ folders = {} /\ files = {}
  /\ itemPath = [i \in {} |-> <<>>]
  /\ archivingItems = {}
  /\ call = [c \in Calls |-> IdleCall]
  /\ failures = 0
  /\ dir = <<>> /\ base = <<>> /\ existing = {} /\ prevExisting = {}
  /\ last = NoResult /\ results = <<>>

\* sourceFolders.find(src => isTopLevelProjectFolder(item.path, src))
CallFind ==
  /\ phase = "called"
  /\ probe.op = "find"
  /\ phase' = "returned"
  /\ answer' = FindSourceFolder(probe.path)
  /\ UNCHANGED <<probe, archiveVars, destVars>>

NextOwner == CallFind

SpecOwner == InitOwner /\ [][NextOwner]_vars

-----------------------------------------------------------------------------
(* ensureFolderExists called on its own *)

\* deepest folder or file of the vault
MaxDepth == 3

\* the path of n segments "a"
RECURSIVE Chain(_)
Chain(n) == IF n = 1 THEN <<"a">> ELSE Chain(n - 1) \o <<SLASH, "a">>

\* vaults in which the parent of every entry is a folder: k folders one
\* inside the other, perhaps a file inside the innermost, and perhaps a
\* folder or a file "b" next to them
Vaults ==
  { [folders |-> {Chain(i) : i \in 1..k} \cup side.folders,
     files |-> inner \cup side.files] :
      k \in 0..MaxDepth,
      inner \in {{}} \cup {{Chain(j)} : j \in 1..MaxDepth},
      side \in { [folders |-> {}, files |-> {}], [folders |-> {<<"b">>}, files |-> {}],
                 [folders |-> {}, files |-> {<<"b">>}] } }

\* the characters of the paths asked for
FolderChars == {"a", "b", SLASH}

InitEnsure ==
  /\ phase = "called"
  /\ \E v \in Vaults, folderPath \in Strings(FolderChars, MaxStrLen) :
       /\ \A f \in v.files : Len(f) = 1 \/ SubSeq(f, 1, Len(f) - 2) \in v.folders
       /\ v.files \cap v.folders = {}
       /\ folders = v.folders
       /\ files = v.files
       /\ probe = [op |-> "ensureFolderExists", folderPath |-> folderPath,
                   before |-> v.folders]
  /\ answer = NULL
  /\ settings = DEFAULT_SETTINGS
  /\ itemPath = [i \in {} |-> <<>>]
  /\ archivingItems = {}
  /\ call = [c \in Calls |-> IdleCall]
  /\ failures = 0
  /\ dir = <<>> /\ base = <<>> /\ existing = {} /\ prevExisting = {}
  /\ last = NoResult /\ results = <<>>

\* await ensureFolderExists(app, folderPath)
CallEnsureFolderExists ==
  /\ phase = "called"
  /\ probe.op = "ensureFolderExists"
  /\ \E r \in {ensureFolderExists(folders, files, probe.folderPath)} :
       /\ folders' = r.folders
       /\ answer' = r
  /\ phase' = "returned"
  /\ UNCHANGED <<probe, settings, files, itemPath, archivingItems, call, failures, destVars>>

NextEnsure == CallEnsureFolderExists

SpecEnsure == InitEnsure /\ [][NextEnsure]_vars

-----------------------------------------------------------------------------
(* compareByLastModified and the sort that uses it *)

\* latest modification time of an item
MaxMtime == 3

\* most items sorted at once
MaxItems == 4

\* stat.mtime: milliseconds since the epoch, 0 when there is no stat
Mtimes == 0..MaxMtime

\* compareByLastModified with the operands of the subtraction exchanged
compareByLastModifiedAscending(a, b) == a.mtime - b.mtime

compareByLastModified(a, b) == b.mtime - a.mtime

\* the lists of at most n items
RECURSIVE ItemLists(_)
ItemLists(n) ==
  IF n = 0 THEN {<<>>}
  ELSE ItemLists(n - 1)
         \cup {Append(l, [mtime |-> m]) : l \in {k \in ItemLists(n - 1) : Len(k) = n - 1},
                                          m \in Mtimes}

\* one insertion of Array.prototype.sort: x goes behind the items that the
\* comparator does not put after it (the sort is stable)
InsertSorted(sorted, x) ==
  LET behind == {i \in 1..Len(sorted) : compareByLastModified(sorted[i], x) <= 0}
      n == IF behind = {} THEN 0 ELSE CHOOSE i \in behind : \A j \in behind : j <= i
  IN SubSeq(sorted, 1, n) \o <<x>> \o SubSeq(sorted, n + 1, Len(sorted))

\* sorted.sort((a, b) => compareByLastModified(a, b))
RECURSIVE SortItems(_)
SortItems(items) ==
  IF items = <<>> THEN <<>>
  ELSE InsertSorted(SortItems(SubSeq(items, 1, Len(items) - 1)), items[Len(items)])

InitSort ==
  /\ phase = "called"
  /\ \/ \E m \in Mtimes, n \in Mtimes :
          probe = [op |-> "compareByLastModified", a |-> [mtime |-> m], b |-> [mtime |-> n]]
     \/ \E items \in ItemLists(MaxItems) : probe = [op |-> "sort", items |-> items]
  /\ answer = NULL
  /\ NothingRunning

\* compareByLastModified(a, b)
CallCompareByLastModified ==
  /\ phase = "called"
  /\ probe.op = "compareByLastModified"
  /\ phase' = "returned"
  /\ answer' = compareByLastModified(probe.a, probe.b)
  /\ UNCHANGED <<probe, archiveVars, destVars>>

\* the sort of sortItems under projectSortOrder "lastModified"
CallSort ==
  /\ phase = "called"
  /\ probe.op = "sort"
  /\ phase' = "returned"
  /\ answer' = SortItems(probe.items)
  /\ UNCHANGED <<probe, archiveVars, destVars>>

NextSort == CallCompareByLastModified \/ CallSort

SpecSort == InitSort /\ [][NextSort]_vars

-----------------------------------------------------------------------------
(* Properties of the archive workflow (Spec) *)

\* invocation c went past the guard of archiveItem
Started(c) == call[c].pc # "idle" /\ call[c].outcome # "refused"

\* C1: single-flight guard.  An invocation of archiveItem that starts for a
\* path while an earlier invocation for that path has not resolved performs
\* no storage move and returns at once, refused, with confirmBeforeArchive
\* off and on.
C1_SingleFlight ==
  \A c \in Calls :
    call[c].overlapped => call[c].moves = <<>> /\ call[c].outcome \in {"none", "refused"}

\* C2: guard release.  A path is in archivingItems only while the invocation
\* that added it is running; so once every invocation has finished the set
\* is empty.
C2_GuardReleased ==
  \A p \in archivingItems : \E c \in Calls : call[c].path = p /\ Unresolved(c)

\* C3: retry bound.  One archive operation passes at most 3 moves to the
\* vault, and every move but its latest has failed (a retry follows a
\* failure only, nothing follows a success).
C3_RetryBound ==
  \A c \in Calls :
    /\ Len(call[c].moves) <= 3
    /\ \A i \in 1..(Len(call[c].moves) - 1) : ~call[c].moves[i].ok

\* C3 witness: an operation whose third move succeeded after two failures
C3_ThirdMoveSucceeds ==
  \E c \in Calls : Len(call[c].moves) = 3 /\ call[c].moves[3].ok

\* C4: no overwrite.  Every destination passed to vault.rename (and the one
\* about to be passed) is absent from the snapshot it was computed from; on
\* a retry that snapshot holds the destination that just failed, so the new
\* destination differs from it.
C4_NoOverwrite ==
  \A c \in Calls :
    /\ call[c].pc = "rename" => call[c].destPath \notin call[c].snapshot
    /\ \A i \in 1..Len(call[c].moves) :
         /\ call[c].moves[i].dest \notin call[c].moves[i].snapshot
         /\ i > 1 => /\ call[c].moves[i].dest # call[c].moves[i - 1].dest
                     /\ call[c].moves[i - 1].dest \in call[c].moves[i].snapshot

\* C4 witness: a retry whose first destination was computed against an
\* occupied archive subfolder
C4_RetryInOccupiedSubfolder ==
  \E c \in Calls : Len(call[c].moves) >= 2 /\ call[c].moves[1].snapshot # {}

\* C8: owning root required.  An item that is a top-level child of no
\* configured root gets no destination and no move, and its operation ends
\* as a failure.
C8_OwningRootRequired ==
  \A c \in Calls :
    Started(c) /\ call[c].sourceFolder = UNDEFINED
      => /\ call[c].destPath = <<>>
         /\ call[c].moves = <<>>
         /\ call[c].pc = "done" => call[c].outcome = "failed"

\* C9: one archive subdirectory per source root.  The subfolder used is the
\* archive root joined with the owning root's name, and items owned by
\* different roots use different subfolders.
C9_OneSubfolderPerRoot ==
  \A c, d \in Calls :
    Started(c) /\ Started(d) /\ call[c].sourceFolder # UNDEFINED
                             /\ call[d].sourceFolder # UNDEFINED
      => /\ call[c].archiveSubfolder
              = normalizePath(call[c].archivePath \o <<SLASH>>
                                \o getItemName(call[c].sourceFolder))
         /\ call[c].sourceFolder # call[d].sourceFolder
              => call[c].archiveSubfolder # call[d].archiveSubfolder

\* C10: error surfaced on exhaustion.  An operation that has stopped moving
\* with every move failed has ended as a failure whose notice carries the
\* message of the vault's last move error, with confirmBeforeArchive off and
\* on.
C10_ErrorSurfaced ==
  \A c \in Calls :
    /\ call[c].moves # <<>>
    /\ \A i \in 1..Len(call[c].moves) : ~call[c].moves[i].ok
    /\ call[c].pc # "rename"
    => /\ call[c].outcome = "failed"
       /\ call[c].notice = FailedNotice(call[c].itemName, call[c].renameError)

\* C27: retries never repeat a destination.  The destinations of the
\* moves of one archive operation are pairwise distinct, whatever the
\* vault answers.
C27_DistinctDestinations ==
  \A c \in Calls :
    \A i \in 1..Len(call[c].moves), j \in 1..Len(call[c].moves) :
      i # j => call[c].moves[i].dest # call[c].moves[j].dest

\* no root of s lies at or inside another: the segments of neither are a
\* prefix of the segments of the other
NonNestedConfig(s) ==
  \A i, j \in 1..Len(allFields) :
    i # j =>
      LET si == Segments(normalizePathPure(s[allFields[i]]))
          sj == Segments(normalizePathPure(s[allFields[j]]))
      IN ~(Len(si) <= Len(sj) /\ SubSeq(sj, 1, Len(si)) = si)

MovesExhausted(c) ==
  /\ call[c].moves # <<>>
  /\ \A i \in 1..Len(call[c].moves) : ~call[c].moves[i].ok
  /\ call[c].pc # "rename"

\* C11 (as amended): retry count.  After a failed move performArchive
\* retries, whatever the error, until MAX_RENAME_RETRIES moves have failed:
\* an operation waiting on a move has made fewer than 3, and one that gave
\* up on moving has made exactly 3.
C11_RetriesTwice ==
  \A c \in Calls :
    /\ call[c].pc = "rename" => Len(call[c].moves) = call[c].attempt
                                /\ call[c].attempt < 3
    /\ MovesExhausted(c) => Len(call[c].moves) = 3

\* C11 witness: three failed moves, then the failure notice
C11_ThreeMovesFailed ==
  \E c \in Calls :
    MovesExhausted(c) /\ Len(call[c].moves) = 3 /\ call[c].outcome = "failed"

\* C11 (as stated): after a failed move there is exactly one retry, so an
\* operation that gave up on moving has made exactly two moves.
C11_RetriesOnce ==
  \A c \in Calls : MovesExhausted(c) => Len(call[c].moves) = 2

\* C12: every archive runs to completion or failure.  Under SpecLive every
\* invocation of archiveItem that has started eventually resolves.
C12_EveryArchiveResolves ==
  \A c \in Calls : (call[c].pc # "idle") ~> (call[c].pc = "done")

-----------------------------------------------------------------------------
(* Properties of the root configuration (SpecConfig) *)

\* the root-config invariant: the four roots are pairwise distinct after
\* normalization and no two of them are nested
ValidConfig(s) ==
  \A i, j \in 1..Len(allFields) :
    i < j => /\ normalizePathPure(s[allFields[i]]) # normalizePathPure(s[allFields[j]])
             /\ ~isNestedPath(s[allFields[i]], s[allFields[j]])

\* C13: root-config invariant enforced at load.  Whatever data.json held,
\* the configuration that loadSettings leaves satisfies the invariant.
C13_ValidAfterLoad ==
  probe.op = "loadSettings" => ValidConfig(settings)

\* C14: root-config invariant preserved by edits.  An edit of a path field
\* of a configuration that satisfies the invariant leaves one that does.
C14_EditsPreserveInvariant ==
  [][phase = "loaded" /\ ValidConfig(settings) => ValidConfig(settings')]_vars

\* C14 witness: an edit that was stored and changed a valid configuration
C14_EditStored ==
  /\ probe.op = "edit"
  /\ answer = NULL
  /\ settings # probe.before
  /\ ValidConfig(probe.before)

\* C28: a rejected edit changes nothing.  When validateParaFolderPath
\* reports a conflict for an edit, the settings stay as they were and
\* saveSettings is not called; an accepted edit changes the edited field
\* only, to the value entered, and saves.
C28_RejectedEditChangesNothing ==
  probe.op = "edit" =>
    IF answer # NULL
    THEN settings = probe.before /\ ~probe.saved
    ELSE /\ settings = [probe.before EXCEPT ![probe.field] = probe.newPath]
         /\ probe.saved

\* C28 witness: an edit to a path other than the stored one, rejected
C28_NewValueRejected ==
  /\ probe.op = "edit"
  /\ answer # NULL
  /\ probe.newPath # probe.before[probe.field]
  /\ normalizePathPure(probe.newPath) # normalizePathPure(probe.before[probe.field])

-----------------------------------------------------------------------------
(* Properties of validateParaFolderPath (SpecValidate) *)

\* the candidate is the same as, or nested with, the current value of field k
Conflicting(k) ==
  \/ probe.newPath = settings[allFields[k]]
  \/ isNestedPath(probe.newPath, settings[allFields[k]])

\* the fields other than the one being changed whose value conflicts
OtherConflicts ==
  {k \in 1..Len(allFields) : allFields[k] # probe.field /\ Conflicting(k)}

\* the first of them in the order projects, areas, resources, archive
FirstConflict == CHOOSE k \in OtherConflicts : \A j \in OtherConflicts : k <= j

\* C15: single-field validation scope.  validateParaFolderPath returns null
\* exactly when the candidate conflicts with none of the other three fields;
\* otherwise its message is about the first conflicting field in the order
\* projects, areas, resources, archive; and the result is the same whatever
\* the current value of the field being changed.
C15_ValidationScope ==
  phase = "returned" =>
    /\ answer = NULL <=> OtherConflicts = {}
    /\ answer # NULL => answer[3] = FOLDER_DISPLAY_NAMES[allFields[FirstConflict]]
    /\ \A own \in PathStrings :
         validateParaFolderPath(probe.newPath, probe.field,
                                [settings EXCEPT ![probe.field] = own]) = answer

\* C15 witness: a candidate equal to the current value of its own field,
\* and accepted
C15_OwnValueAccepted ==
  /\ phase = "returned"
  /\ answer = NULL
  /\ probe.newPath = settings[probe.field]

\* C16: conflict message selection.  A conflict names the changed field
\* first and the conflicting field second; it says "cannot be the same as"
\* when the candidate and the other path are the same string, and "cannot be
\* nested with" otherwise, also when they are equal only after normalization.
C16_MessageSelection ==
  phase = "returned" /\ answer # NULL =>
    /\ Len(answer) = 4
    /\ answer[1] = FOLDER_DISPLAY_NAMES[probe.field]
    /\ answer[3] = FOLDER_DISPLAY_NAMES[allFields[FirstConflict]]
    /\ answer[4] = " folder"
    /\ IF probe.newPath = settings[allFields[FirstConflict]]
       THEN answer[2] = " folder cannot be the same as "
       ELSE answer[2] = " folder cannot be nested with "

\* C16 witness: "nested with" for two paths equal only after normalization
C16_NestedForEqualAfterNormalization ==
  /\ phase = "returned"
  /\ answer # NULL
  /\ answer[2] = " folder cannot be nested with "
  /\ probe.newPath # settings[allFields[FirstConflict]]
  /\ normalizePathPure(probe.newPath) = normalizePathPure(settings[allFields[FirstConflict]])

-----------------------------------------------------------------------------
(* Properties of arePathsNested and isNestedPath (SpecNested) *)

\* arePathsNested has returned for the list probe.paths
ListChecked == phase = "returned" /\ probe.op = "arePathsNested"

\* isNestedPath has returned for probe.path1 and probe.path2
PairChecked == phase = "returned" /\ probe.op = "isNestedPath"

\* the pairs (i, j), i < j, of entries of probe.paths that are nested
NestedPairs ==
  {h \in (1..Len(probe.paths)) \X (1..Len(probe.paths)) :
     h[1] < h[2] /\ isNestedPath(probe.paths[h[1]], probe.paths[h[2]])}

\* text occurs in the message msg: piece by piece, from some position on
Mentions(msg, text) ==
  text # <<>> /\ \E k \in 0..(Len(msg) - Len(text)) : SubSeq(msg, k + 1, k + Len(text)) = text

\* C17: whole-set validation report.  For the four roots in the order
\* projects, areas, resources, archive, arePathsNested returns no conflict
\* when no two are nested; otherwise its report names both categories of a
\* nested pair and holds both normalized paths.
C17_ReportNamesCategories ==
  ListChecked /\ Len(probe.paths) = 4 =>
    IF NestedPairs = {} THEN answer = NULL
    ELSE \E h \in NestedPairs :
           /\ Mentions(answer, <<FOLDER_DISPLAY_NAMES[allFields[h[1]]]>>)
           /\ Mentions(answer, <<FOLDER_DISPLAY_NAMES[allFields[h[2]]]>>)
           /\ Mentions(answer, <<"\"">> \o normalizePathPure(probe.paths[h[1]]) \o <<"\"">>)
           /\ Mentions(answer, <<"\"">> \o normalizePathPure(probe.paths[h[2]]) \o <<"\"">>)

\* C17 (as the code has it): for the four roots in the order projects,
\* areas, resources, archive, arePathsNested returns no conflict when no two
\* are nested; otherwise its report is the fixed text around the two
\* normalized paths of a nested pair, each in quotes, with no word for the
\* categories the paths belong to.
C17_ReportHoldsPaths ==
  ListChecked /\ Len(probe.paths) = 4 =>
    IF NestedPairs = {} THEN answer = NULL
    ELSE \E h \in NestedPairs :
           answer = <<"PARA folders cannot be nested: ", "\"">>
                      \o normalizePathPure(probe.paths[h[1]]) \o <<"\"", " and ", "\"">>
                      \o normalizePathPure(probe.paths[h[2]]) \o <<"\"">>

\* C17 witness: four roots, two of them nested and written unnormalized,
\* and a report returned
C17_NestedRootsReported ==
  /\ ListChecked
  /\ Len(probe.paths) = 4
  /\ answer # NULL
  /\ \E h \in NestedPairs : probe.paths[h[1]] # normalizePathPure(probe.paths[h[1]])

\* C18: deterministic first conflict.  arePathsNested returns null exactly
\* when no two entries of the list are nested, and otherwise the report for
\* the nested pair (i, j), i < j, with the smallest i and then the smallest
\* j; lists of every length from 0 on.
C18_FirstConflict ==
  ListChecked =>
    /\ answer = NULL <=> NestedPairs = {}
    /\ \A h \in NestedPairs :
         (\A g \in NestedPairs : h[1] < g[1] \/ (h[1] = g[1] /\ h[2] <= g[2]))
           => answer = NestedMessage(normalizePathPure(probe.paths[h[1]]),
                                     normalizePathPure(probe.paths[h[2]]))

\* C18 witness: a list with a nested pair whose report would differ from
\* the one returned
C18_LaterPairDiffers ==
  /\ ListChecked
  /\ \E h \in NestedPairs :
       answer # NestedMessage(normalizePathPure(probe.paths[h[1]]),
                              normalizePathPure(probe.paths[h[2]]))

\* ways of writing the path p that normalizePathPure undoes
Rewritings(p) ==
  { p, <<SLASH>> \o p, p \o <<SLASH>>, <<SLASH, SLASH>> \o p \o <<SLASH, SLASH>>,
    [i \in 1..Len(p) |-> IF p[i] = SLASH THEN BACKSLASH ELSE p[i]] }

\* C19: isNestedPath definition.  isNestedPath(a, b) is true iff the
\* normalized paths are equal or one followed by "/" is a prefix of the
\* other; and writing a or b with more slashes or with backslashes does not
\* change the result.
C19_NestedDefinition ==
  PairChecked =>
    LET na == normalizePathPure(probe.path1)
        nb == normalizePathPure(probe.path2)
    IN /\ answer <=> \/ na = nb
                     \/ StartsWith(nb, na \o <<SLASH>>)
                     \/ StartsWith(na, nb \o <<SLASH>>)
       /\ \A a \in Rewritings(probe.path1), b \in Rewritings(probe.path2) :
            isNestedPath(a, b) = answer

\* C19 witness: two names that share a raw prefix only
C19_RawPrefixNotNested ==
  /\ PairChecked
  /\ ~answer
  /\ probe.path1 # probe.path2
  /\ StartsWith(probe.path2, probe.path1)
  /\ probe.path1 # <<>>

\* one segment sequence is a prefix of the other
SegmentPrefix(s, t) == Len(s) <= Len(t) /\ SubSeq(t, 1, Len(s)) = s

\* C20: isNestedPath matches the hierarchy.  isNestedPath(a, b) is true
\* exactly when the segments of one normalized path are a prefix of the
\* segments of the other, the empty path (the storage root) included.
C20_MatchesHierarchy ==
  PairChecked =>
    LET sa == Segments(normalizePathPure(probe.path1))
        sb == Segments(normalizePathPure(probe.path2))
    IN answer <=> SegmentPrefix(sa, sb) \/ SegmentPrefix(sb, sa)

-----------------------------------------------------------------------------
(* Properties of the path functions (SpecPaths) *)

\* op has returned for the probe
Returned(op) == phase = "returned" /\ probe.op = op

\* the number of slashes of s
SlashCount(s) == Cardinality({i \in 1..Len(s) : s[i] = SLASH})

\* C21: top-level membership.  isTopLevelProjectFolder(item, root) is true
\* iff the normalized parent path of item equals the normalized root; so
\* it is false for the root itself, false two or more levels below the
\* root, and false when the parent only has the root as a string prefix.
C21_TopLevelMembership ==
  Returned("isTopLevelProjectFolder") =>
    LET item == normalizePathPure(probe.folderPath)
        root == normalizePathPure(probe.projectsPath)
    IN /\ answer <=> getParentPath(item) = root
       /\ item = root => ~answer
       /\ StartsWith(item, root \o <<SLASH>>)
            /\ SlashCount(item) >= SlashCount(root \o <<SLASH>>) + 1 => ~answer
       /\ StartsWith(getParentPath(item), root) /\ getParentPath(item) # root => ~answer

\* C22: normalization is idempotent.  Normalizing the result of
\* normalizePathPure again gives the same string.
C22_Idempotent ==
  Returned("normalizePathPure") => normalizePathPure(answer) = answer

\* C22 witness: a string with a leading backslash, which normalization
\* changes
C22_BackslashFirst ==
  /\ Returned("normalizePathPure")
  /\ probe.path # <<>> /\ probe.path[1] = BACKSLASH
  /\ answer # <<>>

\* the maximal runs of s without a character of seps, in order
Runs(s, seps) ==
  LET starts == {i \in 1..Len(s) : s[i] \notin seps /\ (i = 1 \/ s[i - 1] \in seps)}
      start(k) == CHOOSE i \in starts : Cardinality({j \in starts : j <= i}) = k
      end(i) == CHOOSE e \in i..Len(s) :
                  /\ \A j \in i..e : s[j] \notin seps
                  /\ (e = Len(s) \/ s[e + 1] \in seps)
  IN [k \in 1..Cardinality(starts) |-> SubSeq(s, start(k), end(start(k)))]

\* C23: normalization yields the canonical form.  The result has no
\* backslash, no two slashes in a row, no slash first or last, and its
\* segments are the input's non-separator segments in their order; the
\* empty string gives the empty string.
C23_CanonicalForm ==
  Returned("normalizePathPure") =>
    /\ \A i \in 1..Len(answer) : answer[i] # BACKSLASH
    /\ \A i \in 1..(Len(answer) - 1) : ~(answer[i] = SLASH /\ answer[i + 1] = SLASH)
    /\ answer # <<>> => answer[1] # SLASH /\ answer[Len(answer)] # SLASH
    /\ Runs(answer, {SLASH}) = Runs(probe.path, {SLASH, BACKSLASH})
    /\ probe.path = <<>> => answer = <<>>

\* C23 witness: two segments with a run of mixed separators between them
C23_MixedSeparators ==
  /\ Returned("normalizePathPure")
  /\ Len(Runs(probe.path, {SLASH, BACKSLASH})) = 2
  /\ \E i \in 1..(Len(probe.path) - 1) :
       {probe.path[i], probe.path[i + 1]} = {SLASH, BACKSLASH}

\* C24: parent/name round trip.  For a normalized path p with a slash,
\* the name of parent(p) + "/" + name(p) is the name of p.
C24_RoundTrip ==
  /\ Returned("getItemName")
  /\ probe.path = normalizePathPure(probe.path)
  /\ SlashCount(probe.path) >= 1
  => answer = getItemName(probe.path)

\* C24 witness: a normalized path of three segments
C24_ThreeSegments ==
  /\ Returned("getItemName")
  /\ probe.path = normalizePathPure(probe.path)
  /\ SlashCount(probe.path) = 2

-----------------------------------------------------------------------------
(* Properties of the search for the source folder (SpecOwner) *)

\* the configured roots that the path is a top-level child of
OwningRoots(path) ==
  {k \in 1..Len(allFields) : isTopLevelProjectFolder(path, settings[allFields[k]])}

\* the four roots are pairwise distinct after normalization
DistinctRoots ==
  \A i, j \in 1..Len(allFields) :
    i < j => normalizePathPure(settings[allFields[i]]) # normalizePathPure(settings[allFields[j]])

\* C29: unique owning root.  When the roots are pairwise distinct after
\* normalization, an item is a top-level child of at most one of them, and
\* the source folder found is the same in whatever order the source
\* folders are examined: every source folder that owns the item is the one
\* found.
C29_UniqueOwningRoot ==
  Returned("find") /\ DistinctRoots =>
    /\ Cardinality(OwningRoots(probe.path)) <= 1
    /\ \A k \in 1..Len(getSourceFolders) :
         isTopLevelProjectFolder(probe.path, getSourceFolders[k])
           => answer = getSourceFolders[k]
    /\ answer = UNDEFINED <=>
         \A k \in 1..Len(getSourceFolders) :
           ~isTopLevelProjectFolder(probe.path, getSourceFolders[k])

\* C29 witness: nested roots, and an item found to belong to the inner one
C29_InnerRootOwns ==
  /\ Returned("find")
  /\ DistinctRoots
  /\ answer # UNDEFINED
  /\ \E k \in 1..Len(allFields) :
       /\ normalizePathPure(settings[allFields[k]]) # normalizePathPure(answer)
       /\ StartsWith(normalizePathPure(answer),
                     normalizePathPure(settings[allFields[k]]) \o <<SLASH>>)

-----------------------------------------------------------------------------
(* Properties of ensureFolderExists (SpecEnsure) *)

\* the paths of the segments of the path asked for, shallowest first
SegmentPaths ==
  LET segments == Segments(normalizePath(probe.folderPath))
  IN [i \in 1..Len(segments) |-> JoinFirst(segments, i)]

\* the segment paths that are files
Offending == {i \in 1..Len(SegmentPaths) : SegmentPaths[i] \in files}

\* C25: directory creation never replaces a file.  ensureFolderExists
\* creates nothing when the path is a folder already; it fails exactly when
\* the path or one of its segments exists and is no folder, and then
\* creates nothing at or below that segment; otherwise it creates exactly
\* the missing segments, shallowest first.
C25_NeverReplacesFile ==
  Returned("ensureFolderExists") =>
    LET normalizedPath == normalizePath(probe.folderPath)
        missing == SelectSeq(SegmentPaths, LAMBDA q : q \notin probe.before)
    IN /\ IsFolder(probe.before, normalizedPath) => ~answer.threw /\ answer.created = <<>>
       /\ answer.threw <=> Offending # {}
       /\ answer.threw =>
            \A i \in Offending, k \in 1..Len(answer.created) :
              /\ answer.created[k] # SegmentPaths[i]
              /\ ~StartsWith(answer.created[k], SegmentPaths[i] \o <<SLASH>>)
       /\ ~answer.threw => answer.created = missing
       /\ folders = probe.before \cup {answer.created[k] : k \in 1..Len(answer.created)}
       /\ files \cap folders = {}

\* C25 witness: a file in the way below an existing folder and above the
\* folder asked for, and a call that has failed on it without creating
\* anything
C25_FileInTheWay ==
  /\ Returned("ensureFolderExists")
  /\ answer.threw
  /\ \E i \in Offending : i > 1 /\ i < Len(SegmentPaths)
  /\ folders = probe.before

-----------------------------------------------------------------------------
(* Properties of compareByLastModified (SpecSort) *)

\* the number of positions of the list l that hold x
Occurrences(l, x) == Cardinality({i \in 1..Len(l) : l[i] = x})

\* C26: recency comparator.  compareByLastModified(a, b) is negative iff
\* a is newer, positive iff b is newer and 0 iff the mtimes are equal; it
\* is antisymmetric and transitive, and a sort with it puts the items in
\* descending order of mtime.
C26_DescendingOrder ==
  /\ Returned("compareByLastModified") =>
       /\ answer < 0 <=> probe.a.mtime > probe.b.mtime
       /\ answer > 0 <=> probe.a.mtime < probe.b.mtime
       /\ answer = 0 <=> probe.a.mtime = probe.b.mtime
       /\ compareByLastModified(probe.b, probe.a) = 0 - answer
  /\ Returned("sort") =>
       /\ Len(answer) = Len(probe.items)
       /\ \A i \in 1..Len(answer) :
            Occurrences(answer, answer[i]) = Occurrences(probe.items, answer[i])
       /\ \A i \in 1..Len(answer), j \in 1..Len(answer) :
            i < j => answer[i].mtime >= answer[j].mtime
       /\ \A i \in 1..Len(answer), j \in 1..Len(answer), k \in 1..Len(answer) :
            /\ compareByLastModified(answer[i], answer[j]) <= 0
            /\ compareByLastModified(answer[j], answer[k]) <= 0
            => compareByLastModified(answer[i], answer[k]) <= 0

\* C26 witness: three items given oldest first come back newest first
C26_Reversed ==
  /\ Returned("sort")
  /\ Len(probe.items) = 3
  /\ probe.items[1].mtime < probe.items[2].mtime
  /\ probe.items[2].mtime < probe.items[3].mtime
  /\ answer = <<probe.items[3], probe.items[2], probe.items[1]>>

-----------------------------------------------------------------------------
(* Properties of generateArchiveDestination (SpecDest) *)

\* the position of destination p in the naming policy
Rank(p) == CHOOSE k \in 0..(MAX_COLLISION_ATTEMPTS + 1) : Candidate(dir, base, k) = p

\* the set the sequence of calls started from
StartSet == existing \ {results[i] : i \in DOMAIN results}

\* the positions of the naming policy that StartSet occupies
StartTaken == {k \in 0..MAX_COLLISION_ATTEMPTS : Candidate(dir, base, k) \in StartSet}

\* C5: destination naming policy.  A destination that
\* generateArchiveDestination returns is the first name, in the order plain,
\* date-suffixed, counter 2, 3, 4, ..., that is not in the set it was given:
\* it is not in the set, and every earlier name is.
C5_NamingPolicy ==
  last.dest # <<>> =>
    /\ last.dest \notin prevExisting
    /\ \E k \in 0..MAX_COLLISION_ATTEMPTS :
         /\ last.dest = Candidate(dir, base, k)
         /\ \A j \in 0..(k - 1) : Candidate(dir, base, j) \in prevExisting
         /\ k >= 2 => last.counter = k

\* C5 witness: counter 4 returned past an occupied counter 3
C5_SkipsOccupiedCounter ==
  /\ last.dest = Candidate(dir, base, 4)
  /\ Candidate(dir, base, 3) \in prevExisting

\* C6: collision safety valve.  generateArchiveDestination fails only after
\* 1000 counter increments, with every name met within those increments
\* (plain, date-suffixed, counters 2..1001) occupied.
C6_SafetyValve ==
  last.threw =>
    /\ last.increments = 1000
    /\ \A k \in 0..1001 : Candidate(dir, base, k) \in prevExisting

\* C7 (as amended): repeated archiving never reuses a name.  The
\* destinations returned in sequence are pairwise distinct and ascend in the
\* policy order; when the starting set occupies an initial stretch of the
\* policy order (the empty set included) they are consecutive from its end;
\* and the sequence goes on until the plain name, the date-suffixed name and
\* counters 2..MAX_COLLISION_ATTEMPTS are all occupied.
C7_NeverReusesName ==
  /\ \A i, j \in DOMAIN results :
       i < j => results[i] # results[j] /\ Rank(results[i]) < Rank(results[j])
  /\ StartTaken = 0..(Cardinality(StartTaken) - 1)
       => \A i \in DOMAIN results :
            results[i] = Candidate(dir, base, Cardinality(StartTaken) + i - 1)
  /\ last.threw
       => \A k \in 0..MAX_COLLISION_ATTEMPTS : Candidate(dir, base, k) \in prevExisting

\* C7 witness: three destinations in sequence from a set with a gap
C7_ThreeAroundGap ==
  /\ Len(results) >= 3
  /\ Rank(results[2]) > Rank(results[1]) + 1

\* C7 (as stated): from any starting set the destinations returned in
\* sequence are pairwise distinct and consecutive in the policy order.
C7_ConsecutiveFromAnySet ==
  /\ \A i, j \in DOMAIN results : i < j => results[i] # results[j]
  /\ \A i \in 1..(Len(results) - 1) : Rank(results[i + 1]) = Rank(results[i]) + 1

=============================================================================
